---- MODULE Spec2Model ----
(***************************************************************************)
(* A model of the discrete-time Markov microsimulation of                  *)
(* EconEvalMarkovModelClasses.py (the variant with economic accounting,    *)
(* called "EE" below) and MarkovModelClasses.py (the variant with the      *)
(* post-death guard and the ifDevelopedAIDS flag, called "MM" below).      *)
(*                                                                         *)
(* Real numbers are exact rationals <<numerator, denominator>>; an         *)
(* optional value is <<>> (Python's None) or <<v>>.                        *)
(***************************************************************************)
EXTENDS Integers, Sequences, FiniteSets, TLC

VARIABLES
    variant,         \* "EE" or "MM": which module's classes are running
    params,          \* the shared Parameters object
    cohort,          \* Cohort.id and Cohort.popSize / initialPopSize
    patients,        \* the cohort's list of Patient objects
    cohortOutcomes,  \* Cohort.cohortOutcomes
    pc,              \* "idle" / "run": outside / inside Cohort.simulate;
                     \* "direct": a monitor updated directly; "build": cohorts being built;
                     \* "par": the patients of a cohort run interleaved
    cur,             \* index of the patient the for loop of Cohort.simulate is at
    nSteps,          \* n_time_steps of the Cohort.simulate call in progress (or last)
    calls,           \* number of completed Cohort.simulate calls (or direct updates)
    streams,         \* seed -> the draws RandomState(seed) has produced so far
    lastUpdate,      \* history: the last PatientStateMonitor.update call, <<>> if none
    registry,        \* the cohorts built in a multi-cohort run
    joined           \* the patients whose Patient.simulate has returned, when the
                     \* patients of a cohort are run interleaved

vars == <<variant, params, cohort, patients, cohortOutcomes, pc, cur, nSteps,
          calls, streams, lastUpdate, registry, joined>>

---------------------------------------------------------------------------
(* Bounds of the model *)

MaxTimeSteps == 3
MaxPopSize == 2
MaxCohortId == 1
MaxSimulateCalls == 2
MaxDirectUpdates == 2
MaxCohorts == 2
MaxRegistryId == 3
MaxRegistryPopSize == 3
MaxInterleavedPatients == 2
MaxInterleavedSteps == 2

---------------------------------------------------------------------------
(* Exact rational arithmetic standing for Python's float arithmetic *)

\* (the operators of this section bind their arguments as the elements of
\* one-element sets, so that each argument is evaluated once)
RECURSIVE GCD(_, _)
GCD(a, b) ==
    IF b = 0 THEN a
    ELSE CHOOSE g \in {GCD(x[1], x[2]) : x \in {<<b, a % b>>}} : TRUE

Abs(x) == IF x < 0 THEN -x ELSE x

\* the rational n/d in lowest terms with a positive denominator
Rat(n, d) ==
    CHOOSE r \in {<<(x.s * x.n) \div g, (x.s * x.d) \div g>> :
                      x \in {[n |-> n, d |-> d, s |-> IF d < 0 THEN -1 ELSE 1]},
                      g \in {GCD(Abs(n), Abs(d))}} : TRUE

Num(r) == r[1]
Den(r) == r[2]
Zero == <<0, 1>>
One == <<1, 1>>
Half == <<1, 2>>
FromInt(n) == <<n, 1>>

RatAdd(a, b) ==
    CHOOSE r \in {Rat(Num(x) * Den(y) + Num(y) * Den(x), Den(x) * Den(y)) :
                      x \in {a}, y \in {b}} : TRUE
RatSub(a, b) == RatAdd(a, <<-Num(b), Den(b)>>)
RatMul(a, b) ==
    CHOOSE r \in {Rat(Num(x) * Num(y), Den(x) * Den(y)) : x \in {a}, y \in {b}} : TRUE
RatDiv(a, b) ==
    CHOOSE r \in {Rat(Num(x) * Den(y), Den(x) * Num(y)) : x \in {a}, y \in {b}} : TRUE
RatLE(a, b) == Num(a) * Den(b) <= Num(b) * Den(a)
RatLT(a, b) == Num(a) * Den(b) < Num(b) * Den(a)

RECURSIVE RatPow(_, _)
RatPow(a, n) == IF n = 0 THEN One ELSE RatMul(a, RatPow(a, n - 1))

None == <<>>
Some(v) == <<v>>
IsSet(o) == o # <<>>
Val(o) == o[1]

---------------------------------------------------------------------------
(* HealthStates and Parameters (EconEvalInputData / ParameterClasses) *)

WELL == 0
AIDS == 1
HIV_DEATH == 2
HealthStates == {WELL, AIDS, HIV_DEATH}

\* the values a draw of a patient's random stream can take: the draw u stands
\* for a uniform number in [u / ProbDen, (u + 1) / ProbDen)
Draws == {0, 1}

\* the denominator of the transition probabilities: a row holds integer
\* weights w with probability w / ProbDen
ProbDen == Cardinality(Draws)

\* a row of the transition matrix: non-negative weights summing to ProbDen
Rows == {r \in [1..3 -> 0..ProbDen] : r[1] + r[2] + r[3] = ProbDen}

\* the transition matrices: any row for the two living states, the death row absorbing
ProbMatrices == {<<w, a, <<0, 0, ProbDen>>>> : w \in Rows, a \in Rows}

\* the economic inputs: annual state costs, annual state utilities, annual
\* treatment cost, annual discount rate
EconInputs ==
    { [annualStateCosts |-> <<2, 4, 0>>, annualStateUtilities |-> <<2, 1, 0>>,
       annualTreatmentCost |-> 2, discountRate |-> One],
      [annualStateCosts |-> <<3, 1, 0>>, annualStateUtilities |-> <<1, 1, 0>>,
       annualTreatmentCost |-> 1, discountRate |-> Zero],
      [annualStateCosts |-> <<2, -6, 0>>, annualStateUtilities |-> <<2, -1, 0>>,
       annualTreatmentCost |-> 0, discountRate |-> One] }

Parameters ==
    { [initialHealthState |-> s, probMatrix |-> m,
       annualStateCosts |-> e.annualStateCosts,
       annualStateUtilities |-> e.annualStateUtilities,
       annualTreatmentCost |-> e.annualTreatmentCost,
       discountRate |-> e.discountRate] :
      s \in HealthStates, m \in ProbMatrices, e \in EconInputs }

---------------------------------------------------------------------------
(* The external collaborators, as section 4 and 9 of the specification give them *)

RECURSIVE CumWeight(_, _)
CumWeight(row, j) == IF j = 0 THEN 0 ELSE row[j] + CumWeight(row, j - 1)

\* TransitionSampler (Empirical.sample / MarkovJumpProcess.get_next_state): the
\* first index whose cumulative probability exceeds the uniform draw u / ProbDen
get_next_state(probMatrix, current_state_index, u) ==
    LET row == probMatrix[current_state_index + 1]
    IN  (CHOOSE j \in 1..3 :
            /\ CumWeight(row, j) > u
            /\ \A i \in 1..(j - 1) : CumWeight(row, i) <= u) - 1

\* PresentValueCalculator: PV = payment / (1 + rate)^period
pv_single_payment(payment, discount_rate, discount_period) ==
    RatDiv(payment, RatPow(RatAdd(One, discount_rate), discount_period))

---------------------------------------------------------------------------
(* PatientCostUtilityMonitor *)

PatientCostUtilityMonitor_init ==
    [totalDiscountedCost |-> Zero, totalDiscountedUtility |-> Zero]

\* cost of one step before discounting (EconEvalMarkovModelClasses.py 105-116)
StepCost(p, current_state, next_state) ==
    LET cost == RatMul(Half, FromInt(p.annualStateCosts[current_state + 1]
                                     + p.annualStateCosts[next_state + 1]))
    IN  IF next_state = HIV_DEATH
        THEN RatAdd(cost, RatMul(Half, FromInt(p.annualTreatmentCost)))
        ELSE RatAdd(cost, RatMul(One, FromInt(p.annualTreatmentCost)))

\* utility of one step before discounting (EconEvalMarkovModelClasses.py 108-109)
StepUtility(p, current_state, next_state) ==
    RatMul(Half, FromInt(p.annualStateUtilities[current_state + 1]
                         + p.annualStateUtilities[next_state + 1]))

\* the discount period without the half-cycle correction
StepDiscountPeriod_even(k) == 2 * k

\* the discount rate and the discount period handed to pv_single_payment
StepDiscountRate(p) == RatDiv(p.discountRate, FromInt(2))
StepDiscountPeriod(k) == 2 * k + 1

\* the update with "-=" written for "+="
EE_PatientCostUtilityMonitor_update_minus(cu, p, k, current_state, next_state) ==
    [totalDiscountedCost |->
        RatSub(cu.totalDiscountedCost,
               pv_single_payment(StepCost(p, current_state, next_state),
                                 StepDiscountRate(p), StepDiscountPeriod(k))),
     totalDiscountedUtility |->
        RatSub(cu.totalDiscountedUtility,
               pv_single_payment(StepUtility(p, current_state, next_state),
                                 StepDiscountRate(p), StepDiscountPeriod(k)))]

EE_PatientCostUtilityMonitor_update(cu, p, k, current_state, next_state) ==
    [totalDiscountedCost |->
        RatAdd(cu.totalDiscountedCost,
               pv_single_payment(StepCost(p, current_state, next_state),
                                 StepDiscountRate(p), StepDiscountPeriod(k))),
     totalDiscountedUtility |->
        RatAdd(cu.totalDiscountedUtility,
               pv_single_payment(StepUtility(p, current_state, next_state),
                                 StepDiscountRate(p), StepDiscountPeriod(k)))]

\* MarkovModelClasses.py: the body of update holds comments only
MM_PatientCostUtilityMonitor_update(cu, p, k, current_state, next_state) == cu

---------------------------------------------------------------------------
(* PatientStateMonitor *)

PatientStateMonitor_init(p) ==
    [currentState |-> p.initialHealthState,
     survivalTime |-> None,
     timeToAIDS |-> None,
     ifDevelopedAIDS |-> FALSE,   \* a field of the MM variant only; EE never touches it
     costUtilityMonitor |-> PatientCostUtilityMonitor_init]

\* the event time with the half cycle taken off
HalfCycle_minusHalf(time_step) == RatSub(FromInt(time_step), Half)

\* the event time without the half-cycle correction
HalfCycle_noCorrection(time_step) == FromInt(time_step)

\* time_step + 0.5
HalfCycle(time_step) == RatAdd(FromInt(time_step), Half)

\* the update with the death test made on the current state
EE_PatientStateMonitor_update_testsCurrent(m, p, time_step, new_state) ==
    LET m1 == IF m.currentState = HIV_DEATH
              THEN [m EXCEPT !.survivalTime = Some(HalfCycle(time_step))]
              ELSE m
        m2 == IF m1.currentState # AIDS /\ new_state = AIDS
              THEN [m1 EXCEPT !.timeToAIDS = Some(HalfCycle(time_step))]
              ELSE m1
        m3 == [m2 EXCEPT !.costUtilityMonitor =
                  EE_PatientCostUtilityMonitor_update(
                      m2.costUtilityMonitor, p, time_step, m2.currentState, new_state)]
    IN  [m3 EXCEPT !.currentState = new_state]

\* PatientStateMonitor.update of EconEvalMarkovModelClasses.py
EE_PatientStateMonitor_update(m, p, time_step, new_state) ==
    LET m1 == IF new_state = HIV_DEATH
              THEN [m EXCEPT !.survivalTime = Some(HalfCycle(time_step))]
              ELSE m
        m2 == IF m1.currentState # AIDS /\ new_state = AIDS
              THEN [m1 EXCEPT !.timeToAIDS = Some(HalfCycle(time_step))]
              ELSE m1
        m3 == [m2 EXCEPT !.costUtilityMonitor =
                  EE_PatientCostUtilityMonitor_update(
                      m2.costUtilityMonitor, p, time_step, m2.currentState, new_state)]
    IN  [m3 EXCEPT !.currentState = new_state]

\* the guarded update recording the time to AIDS at the first onset only
MM_PatientStateMonitor_update_firstOnsetOnly(m, p, time_step, new_state) ==
    IF m.currentState = HIV_DEATH
    THEN m
    ELSE
    LET m1 == IF new_state = HIV_DEATH
              THEN [m EXCEPT !.survivalTime = Some(HalfCycle(time_step))]
              ELSE m
        m2 == IF m1.currentState # AIDS /\ new_state = AIDS /\ ~m1.ifDevelopedAIDS
              THEN [m1 EXCEPT !.ifDevelopedAIDS = TRUE,
                              !.timeToAIDS = Some(HalfCycle(time_step))]
              ELSE m1
        m3 == [m2 EXCEPT !.costUtilityMonitor =
                  MM_PatientCostUtilityMonitor_update(
                      m2.costUtilityMonitor, p, time_step, m2.currentState, new_state)]
    IN  [m3 EXCEPT !.currentState = new_state]

\* PatientStateMonitor.update of MarkovModelClasses.py
MM_PatientStateMonitor_update(m, p, time_step, new_state) ==
    IF m.currentState = HIV_DEATH
    THEN m
    ELSE
    LET m1 == IF new_state = HIV_DEATH
              THEN [m EXCEPT !.survivalTime = Some(HalfCycle(time_step))]
              ELSE m
        m2 == IF m1.currentState # AIDS /\ new_state = AIDS
              THEN [m1 EXCEPT !.ifDevelopedAIDS = TRUE,
                              !.timeToAIDS = Some(HalfCycle(time_step))]
              ELSE m1
        m3 == [m2 EXCEPT !.costUtilityMonitor =
                  MM_PatientCostUtilityMonitor_update(
                      m2.costUtilityMonitor, p, time_step, m2.currentState, new_state)]
    IN  [m3 EXCEPT !.currentState = new_state]

PatientStateMonitor_update(v, m, p, time_step, new_state) ==
    IF v = "EE"
    THEN EE_PatientStateMonitor_update(m, p, time_step, new_state)
    ELSE MM_PatientStateMonitor_update(m, p, time_step, new_state)

get_if_alive(m) == m.currentState # HIV_DEATH

---------------------------------------------------------------------------
(* Patient *)

\* Patient.__init__; rngPos is the number of draws taken from the patient's
\* random stream, k the step counter of simulate, inLoop whether simulate is running
Patient_init(id, p) ==
    [id |-> id, rngPos |-> 0, k |-> 0, inLoop |-> FALSE,
     stateMonitor |-> PatientStateMonitor_init(p)]

\* the loop condition without the test that the patient is alive
LoopCondition_noDeathTest(pt, n_time_steps) == pt.k < n_time_steps

\* the loop condition with "<=" written for "<"
LoopCondition_offByOne(pt, n_time_steps) ==
    get_if_alive(pt.stateMonitor) /\ pt.k <= n_time_steps

\* the condition of the while loop of Patient.simulate
LoopCondition(pt, n_time_steps) ==
    get_if_alive(pt.stateMonitor) /\ pt.k < n_time_steps

\* the patient id without the scaling by the population size
PatientId_noScale(cohortId, popSize, i) == cohortId + i

\* the patient id (the seed) of the i-th patient of a cohort, i counted from 0
PatientId(cohortId, popSize, i) == cohortId * popSize + i

\* the populate loop running over range(popSize + 1)
Populate_oneMore(cohortId, popSize, p) ==
    [j \in 1..(popSize + 1) |-> Patient_init(PatientId(cohortId, popSize, j - 1), p)]

\* the list "patients" the populate loop builds
Populate(cohortId, popSize, p) ==
    [j \in 1..popSize |-> Patient_init(PatientId(cohortId, popSize, j - 1), p)]

Seeds == 0..((MaxCohortId + 1) * MaxPopSize - 1)

---------------------------------------------------------------------------
(* CohortOutcomes *)

CohortOutcomes_init ==
    [survivalTimes |-> <<>>, timesToAIDS |-> <<>>, costs |-> <<>>,
     utilities |-> <<>>, nLivingPatients |-> None]

\* the time-sorted list s of changes <<time, increment>> with the change x
\* inserted after the changes that are not later than x
RECURSIVE InsertSorted(_, _)
InsertSorted(s, x) ==
    IF s = <<>> THEN <<x>>
    ELSE IF RatLT(x[1], Head(s)[1]) THEN <<x>> \o s
    ELSE <<Head(s)>> \o InsertSorted(Tail(s), x)

\* the changes sorted by time, changes of one time in their recorded order
RECURSIVE SortChanges(_)
SortChanges(s) ==
    IF s = <<>> THEN <<>>
    ELSE InsertSorted(SortChanges(SubSeq(s, 1, Len(s) - 1)), s[Len(s)])

\* the sizes after each change of a list of changes, from the size given
RECURSIVE RunningSizes(_, _)
RunningSizes(size, changes) ==
    IF changes = <<>> THEN <<>>
    ELSE <<size + Head(changes)[2]>>
         \o RunningSizes(size + Head(changes)[2], Tail(changes))

\* SurvivalCurveBuilder (PrevalencePathBatchUpdate): the step function that
\* starts at initial_size at time 0 and changes by the increment at each time
\* of change, the changes sorted by time
PrevalencePathBatchUpdate(initial_size, times_of_changes, increments) ==
    LET changes == SortChanges([j \in 1..Len(times_of_changes) |->
                                   <<times_of_changes[j], increments[j]>>])
    IN  [times |-> <<Zero>> \o [j \in 1..Len(changes) |-> changes[j][1]],
         values |-> <<initial_size>> \o RunningSizes(initial_size, changes)]

\* the recording loop with the cost and utility lines indented under the
\* survival-time test
RECURSIVE RecordOutcomes_costsOfDeadOnly(_, _, _)
RecordOutcomes_costsOfDeadOnly(v, o, ps) ==
    IF ps = <<>> THEN o
    ELSE
    LET m == Head(ps).stateMonitor
        o1 == IF IsSet(m.survivalTime)
              THEN [o EXCEPT
                      !.survivalTimes = Append(@, Val(m.survivalTime)),
                      !.costs = Append(@, m.costUtilityMonitor.totalDiscountedCost),
                      !.utilities =
                          Append(@, m.costUtilityMonitor.totalDiscountedUtility)]
              ELSE o
        developed == IF v = "EE" THEN IsSet(m.timeToAIDS) ELSE m.ifDevelopedAIDS
        o2 == IF developed
              THEN [o1 EXCEPT !.timesToAIDS = Append(@, Val(m.timeToAIDS))]
              ELSE o1
    IN  RecordOutcomes_costsOfDeadOnly(v, o2, Tail(ps))

\* what the first loop of extract_outcomes appends, patient by patient
RECURSIVE RecordOutcomes(_, _, _)
RecordOutcomes(v, o, ps) ==
    IF ps = <<>> THEN o
    ELSE
    LET m == Head(ps).stateMonitor
        o1 == IF IsSet(m.survivalTime)
              THEN [o EXCEPT !.survivalTimes = Append(@, Val(m.survivalTime))]
              ELSE o
        developed == IF v = "EE" THEN IsSet(m.timeToAIDS) ELSE m.ifDevelopedAIDS
        o2 == IF developed
              THEN [o1 EXCEPT !.timesToAIDS = Append(@, Val(m.timeToAIDS))]
              ELSE o1
        o3 == [o2 EXCEPT
                  !.costs = Append(@, m.costUtilityMonitor.totalDiscountedCost),
                  !.utilities = Append(@, m.costUtilityMonitor.totalDiscountedUtility)]
    IN  RecordOutcomes(v, o3, Tail(ps))

extract_outcomes(v, o, simulated_patients) ==
    LET o1 == RecordOutcomes(v, o, simulated_patients)
    IN  [o1 EXCEPT !.nLivingPatients =
            Some(PrevalencePathBatchUpdate(
                    Len(simulated_patients),
                    o1.survivalTimes,
                    [j \in 1..Len(o1.survivalTimes) |-> -1]))]

---------------------------------------------------------------------------
(* The cohort simulation *)

CohortIds == 0..MaxCohortId
PopSizes == 0..MaxPopSize
TimeSteps == 1..MaxTimeSteps

\* the transition matrices of the cohort runs: progressive disease, relapsing
\* disease, no death at all, death from the first state only
CohortMatrices ==
    { <<<<1, 1, 0>>, <<0, 1, 1>>, <<0, 0, 2>>>>,
      <<<<0, 2, 0>>, <<1, 0, 1>>, <<0, 0, 2>>>>,
      <<<<1, 1, 0>>, <<1, 1, 0>>, <<0, 0, 2>>>>,
      <<<<1, 0, 1>>, <<0, 2, 0>>, <<0, 0, 2>>>> }

\* the parameters of the cohort runs
CohortParameters ==
    {p \in Parameters :
        /\ p.probMatrix \in CohortMatrices
        /\ p.annualStateCosts = <<2, 4, 0>>}

\* Cohort.__init__ with parameters from P and (id, pop_size) from C: MM
\* populates the cohort, EE leaves that to simulate
Cohort_init(P, C) ==
    /\ variant \in {"EE", "MM"}
    /\ params \in P
    /\ cohort \in C
    /\ patients = IF variant = "MM"
                  THEN Populate(cohort.id, cohort.popSize, params)
                  ELSE <<>>
    /\ cohortOutcomes = CohortOutcomes_init
    /\ pc = "idle"
    /\ cur = 1
    /\ nSteps = 0
    /\ calls = 0
    /\ streams = [s \in Seeds |-> <<>>]
    /\ lastUpdate = None
    /\ registry = <<>>
    /\ joined = {}

\* a cohort of any size
Init == Cohort_init(CohortParameters, [id : CohortIds, popSize : PopSizes])

\* a cohort of one patient, under every parameter set
InitPatient == Cohort_init(Parameters, [id : CohortIds, popSize : {1}])

\* Cohort.simulate is called: EE builds the list of patients, MM keeps its own
Cohort_simulate_begin(n) ==
    /\ pc = "idle"
    /\ pc' = "run"
    /\ nSteps' = n
    /\ cur' = 1
    /\ patients' = IF variant = "EE"
                   THEN Populate(cohort.id, cohort.popSize, params)
                   ELSE patients
    /\ UNCHANGED <<variant, params, cohort, cohortOutcomes, calls, streams,
                   lastUpdate, registry, joined>>

\* Patient.simulate is entered by the i-th patient: k = 0, and in EE a new
\* RandomState(seed) (MM made its generator in Patient.__init__)
LoopEntry(i) ==
    patients' = [patients EXCEPT
                    ![i].k = 0,
                    ![i].inLoop = TRUE,
                    ![i].rngPos = IF variant = "EE" THEN 0 ELSE @]

\* Patient.simulate is entered for the patient the for loop is at
Patient_simulate_call ==
    /\ pc = "run"
    /\ cur <= Len(patients)
    /\ ~patients[cur].inLoop
    /\ LoopEntry(cur)
    /\ UNCHANGED <<variant, params, cohort, cohortOutcomes, pc, cur, nSteps,
                   calls, streams, lastUpdate, registry, joined>>

\* a generator that is not seeded: every draw is free
SeededDraw_unseeded(drawn, pos, u) == TRUE

\* the generator of a patient is seeded with the patient's id: its pos-th
\* draw is the pos-th value of the stream of that seed, whoever reveals it
SeededDraw(drawn, pos, u) == pos <= Len(drawn) => u = drawn[pos]

\* one stateMonitor attribute of the class, shared by every patient
MonitorOf_classAttribute(i) == 1

\* whose monitor self.stateMonitor of the i-th patient is: the one made for it
\* in Patient.__init__
MonitorOf(i) == i

\* the body of the while loop of Patient.simulate run by the i-th patient, the
\* draw being u: sample the next state, update the monitor, count the step
LoopBody(i, u) ==
    LET pt == patients[i]
        stateMonitor == patients[MonitorOf(i)].stateMonitor
        pos == pt.rngPos + 1
        drawn == streams[pt.id]
        new_state_index ==
            get_next_state(params.probMatrix, stateMonitor.currentState, u)
        after == PatientStateMonitor_update(
                     variant, stateMonitor, params, pt.k, new_state_index)
    IN  /\ SeededDraw(drawn, pos, u)
        /\ streams' = IF pos <= Len(drawn)
                       THEN streams
                       ELSE [streams EXCEPT ![pt.id] = Append(@, u)]
        /\ patients' = [patients EXCEPT
                           ![i].rngPos = pos,
                           ![i].k = pt.k + 1,
                           ![MonitorOf(i)].stateMonitor = after]
        /\ lastUpdate' = Some([patient |-> i, time_step |-> pt.k,
                               new_state |-> new_state_index,
                               before |-> stateMonitor,
                               after |-> after])

\* one iteration of the while loop of Patient.simulate, the draw being u
Patient_simulate_step(u) ==
    /\ pc = "run"
    /\ cur <= Len(patients)
    /\ patients[cur].inLoop
    /\ LoopCondition(patients[cur], nSteps)
    /\ LoopBody(cur, u)
    /\ UNCHANGED <<variant, params, cohort, cohortOutcomes, pc, cur, nSteps,
                   calls, registry, joined>>

\* the while loop ends and Patient.simulate returns; the for loop moves on
Patient_simulate_return ==
    /\ pc = "run"
    /\ cur <= Len(patients)
    /\ patients[cur].inLoop
    /\ ~LoopCondition(patients[cur], nSteps)
    /\ patients' = [patients EXCEPT ![cur].inLoop = FALSE]
    /\ cur' = cur + 1
    /\ UNCHANGED <<variant, params, cohort, cohortOutcomes, pc, nSteps, calls,
                   streams, lastUpdate, registry, joined>>

\* every patient is simulated: extract_outcomes, and Cohort.simulate returns
Cohort_simulate_return ==
    /\ pc = "run"
    /\ cur > Len(patients)
    /\ cohortOutcomes' = extract_outcomes(variant, cohortOutcomes, patients)
    /\ pc' = "idle"
    /\ calls' = calls + 1
    /\ UNCHANGED <<variant, params, cohort, patients, cur, nSteps, streams,
                   lastUpdate, registry, joined>>

\* the first Cohort.simulate call on a cohort
Cohort_simulate_call(n) ==
    /\ calls = 0
    /\ Cohort_simulate_begin(n)

\* a further Cohort.simulate call on the same Cohort object
Cohort_simulate_again(n) ==
    /\ calls > 0
    /\ calls < MaxSimulateCalls
    /\ Cohort_simulate_begin(n)

\* one Cohort.simulate call on a freshly built cohort
Next ==
    \/ \E n \in TimeSteps : Cohort_simulate_call(n)
    \/ Patient_simulate_call
    \/ \E u \in Draws : Patient_simulate_step(u)
    \/ Patient_simulate_return
    \/ Cohort_simulate_return

Spec == Init /\ [][Next]_vars

SpecPatient == InitPatient /\ [][Next]_vars

\* a cohort of one patient, with any transition matrix and initial state
InitPatientFair ==
    Cohort_init({p \in Parameters : p.annualStateCosts = <<2, 4, 0>>},
                [id : CohortIds, popSize : {1}])

\* the same, the program never stopping while it has a next step to take
SpecPatientFair == InitPatientFair /\ [][Next]_vars /\ WF_vars(Next)

\* Cohort.simulate called again and again on the same Cohort object
NextResim ==
    \/ \E n \in TimeSteps : Cohort_simulate_call(n)
    \/ \E n \in TimeSteps : Cohort_simulate_again(n)
    \/ Patient_simulate_call
    \/ \E u \in Draws : Patient_simulate_step(u)
    \/ Patient_simulate_return
    \/ Cohort_simulate_return

SpecResim == Init /\ [][NextResim]_vars

---------------------------------------------------------------------------
(* PatientStateMonitor.update called directly, with any arguments *)

MonitorParameters ==
    {p \in Parameters : p.probMatrix = <<<<1, 1, 0>>, <<0, 1, 1>>, <<0, 0, 2>>>>}

InitMonitor ==
    /\ variant \in {"EE", "MM"}
    /\ params \in MonitorParameters
    /\ cohort = [id |-> 0, popSize |-> 1]
    /\ patients = Populate(0, 1, params)
    /\ cohortOutcomes = CohortOutcomes_init
    /\ pc = "direct"
    /\ cur = 1
    /\ nSteps = 0
    /\ calls = 0
    /\ streams = [s \in Seeds |-> <<>>]
    /\ lastUpdate = None
    /\ registry = <<>>
    /\ joined = {}

Monitor_update_call(time_step, new_state) ==
    /\ pc = "direct"
    /\ calls < MaxDirectUpdates
    /\ LET before == patients[1].stateMonitor
           after == PatientStateMonitor_update(variant, before, params,
                                               time_step, new_state)
       IN  /\ patients' = [patients EXCEPT ![1].stateMonitor = after]
           /\ lastUpdate' = Some([patient |-> 1, time_step |-> time_step,
                                  new_state |-> new_state,
                                  before |-> before, after |-> after])
    /\ calls' = calls + 1
    /\ UNCHANGED <<variant, params, cohort, cohortOutcomes, pc, cur, nSteps,
                   streams, registry, joined>>

NextMonitor ==
    \E time_step \in 0..MaxTimeSteps, new_state \in HealthStates :
        Monitor_update_call(time_step, new_state)

SpecMonitor == InitMonitor /\ [][NextMonitor]_vars

---------------------------------------------------------------------------
(* Several cohorts built in one run *)

RegistryIds == 0..MaxRegistryId
RegistryPopSizes == 0..MaxRegistryPopSize

InitIds ==
    /\ variant \in {"EE", "MM"}
    /\ params \in {p \in MonitorParameters :
                      p.initialHealthState = WELL /\ p.annualTreatmentCost = 2}
    /\ cohort = [id |-> 0, popSize |-> 0]
    /\ patients = <<>>
    /\ cohortOutcomes = CohortOutcomes_init
    /\ pc = "build"
    /\ cur = 1
    /\ nSteps = 0
    /\ calls = 0
    /\ streams = [s \in Seeds |-> <<>>]
    /\ lastUpdate = None
    /\ registry = <<>>
    /\ joined = {}

\* the ids of the patients of a populated cohort, in the order of the list
PatientIds(ps) == [j \in 1..Len(ps) |-> ps[j].id]

\* one more cohort, with an id no other cohort has, is built and populated
Cohort_populate(id, pop_size) ==
    /\ pc = "build"
    /\ Len(registry) < MaxCohorts
    /\ \A c \in 1..Len(registry) : registry[c].id # id
    /\ registry' = Append(registry,
                          [id |-> id, popSize |-> pop_size,
                           patientIds |-> PatientIds(Populate(id, pop_size, params))])
    /\ UNCHANGED <<variant, params, cohort, patients, cohortOutcomes, pc, cur,
                   nSteps, calls, streams, lastUpdate, joined>>

NextIds ==
    \E id \in RegistryIds, pop_size \in RegistryPopSizes : Cohort_populate(id, pop_size)

SpecIds == InitIds /\ [][NextIds]_vars

---------------------------------------------------------------------------
(* The patients of a populated cohort run in any interleaving of their steps *)

\* Patient.simulate run by one patient on its own, continued from the patient
\* record pt with the draws of its generator still to come being "draws":
\* the monitor it ends with
RECURSIVE RunAlone(_, _, _, _, _)
RunAlone(v, p, pt, n_time_steps, draws) ==
    IF ~LoopCondition(pt, n_time_steps) \/ draws = <<>>
    THEN pt.stateMonitor
    ELSE LET new_state_index ==
                 get_next_state(p.probMatrix, pt.stateMonitor.currentState,
                                Head(draws))
             after == PatientStateMonitor_update(v, pt.stateMonitor, p, pt.k,
                                                 new_state_index)
         IN  RunAlone(v, p, [pt EXCEPT !.stateMonitor = after, !.k = pt.k + 1],
                      n_time_steps, Tail(draws))

\* the parameters of the interleaved runs: progressive or relapsing disease
InterleavedParameters ==
    {p \in CohortParameters :
        p.probMatrix \in { <<<<1, 1, 0>>, <<0, 1, 1>>, <<0, 0, 2>>>>,
                           <<<<0, 2, 0>>, <<1, 0, 1>>, <<0, 0, 2>>>> }}

\* a populated cohort about to simulate its patients for n_time_steps
InitInterleaved ==
    /\ variant \in {"EE", "MM"}
    /\ params \in InterleavedParameters
    /\ cohort \in [id : {MaxCohortId}, popSize : 0..MaxInterleavedPatients]
    /\ patients = Populate(cohort.id, cohort.popSize, params)
    /\ cohortOutcomes = CohortOutcomes_init
    /\ pc = "par"
    /\ cur = 1
    /\ nSteps \in 1..MaxInterleavedSteps
    /\ calls = 0
    /\ streams = [s \in Seeds |-> <<>>]
    /\ lastUpdate = None
    /\ registry = <<>>
    /\ joined = {}

\* the i-th patient's Patient.simulate is entered
Interleaved_simulate_call(i) ==
    /\ pc = "par"
    /\ i \notin joined
    /\ ~patients[i].inLoop
    /\ LoopEntry(i)
    /\ UNCHANGED <<variant, params, cohort, cohortOutcomes, pc, cur, nSteps,
                   calls, streams, lastUpdate, registry, joined>>

\* one iteration of the while loop of the i-th patient's Patient.simulate
Interleaved_simulate_step(i, u) ==
    /\ pc = "par"
    /\ patients[i].inLoop
    /\ LoopCondition(patients[i], nSteps)
    /\ LoopBody(i, u)
    /\ UNCHANGED <<variant, params, cohort, cohortOutcomes, pc, cur, nSteps,
                   calls, registry, joined>>

\* the i-th patient's Patient.simulate returns
Interleaved_simulate_return(i) ==
    /\ pc = "par"
    /\ patients[i].inLoop
    /\ ~LoopCondition(patients[i], nSteps)
    /\ patients' = [patients EXCEPT ![i].inLoop = FALSE]
    /\ joined' = joined \cup {i}
    /\ UNCHANGED <<variant, params, cohort, cohortOutcomes, pc, cur, nSteps,
                   calls, streams, lastUpdate, registry>>

NextInterleaved ==
    \/ \E i \in 1..Len(patients) : Interleaved_simulate_call(i)
    \/ \E i \in 1..Len(patients), u \in Draws : Interleaved_simulate_step(i, u)
    \/ \E i \in 1..Len(patients) : Interleaved_simulate_return(i)

SpecInterleaved == InitInterleaved /\ [][NextInterleaved]_vars

\* two Patient objects built with one id and one Parameters object, outside
\* any cohort, about to be simulated for the same n_time_steps
InitTwins ==
    /\ variant \in {"EE", "MM"}
    /\ params \in CohortParameters
    /\ cohort = [id |-> 0, popSize |-> 0]
    /\ \E id \in Seeds :
           patients = <<Patient_init(id, params), Patient_init(id, params)>>
    /\ cohortOutcomes = CohortOutcomes_init
    /\ pc = "par"
    /\ cur = 1
    /\ nSteps \in TimeSteps
    /\ calls = 0
    /\ streams = [s \in Seeds |-> <<>>]
    /\ lastUpdate = None
    /\ registry = <<>>
    /\ joined = {}

SpecTwins == InitTwins /\ [][NextInterleaved]_vars

---------------------------------------------------------------------------
(* A cohort built with a transition matrix whose death row is not absorbing *)

\* the death row that keeps a dead patient dead
AbsorbingRow == [j \in 1..Cardinality(HealthStates) |-> IF j = HIV_DEATH + 1 THEN ProbDen ELSE 0]

\* the parameters of the cohort runs with the death row replaced by a row
\* that leaves the death state with positive probability
InvalidParameters ==
    {[p EXCEPT !.probMatrix[HIV_DEATH + 1] = r] :
        p \in CohortParameters, r \in Rows \ {AbsorbingRow}}

InitInvalid == Cohort_init(InvalidParameters, [id : CohortIds, popSize : PopSizes])

SpecInvalid == InitInvalid /\ [][Next]_vars

---------------------------------------------------------------------------
(* Helpers of the properties *)

\* the last PatientStateMonitor.update call
U == Val(lastUpdate)

\* Patient.simulate has returned for the i-th patient in the Cohort.simulate
\* call in progress, or in the one that has just completed
Returned(i) ==
    /\ i \in 1..Len(patients)
    /\ \/ pc = "run" /\ i < cur
       \/ pc = "idle" /\ calls > 0

\* k + 0.5, written out
AtHalf(k) == <<2 * k + 1, 2>>

---------------------------------------------------------------------------
(* C1 *)

\* C1: an update called while currentState is already the death state is a
\* no-op: currentState, survivalTime, timeToAIDS and both discounted totals
\* are unchanged (so a survival time, once set, is never overwritten).
C1_UpdateAfterDeathIsNoOp ==
    (IsSet(lastUpdate) /\ U.before.currentState = HIV_DEATH)
        => /\ U.after.currentState = U.before.currentState
           /\ U.after.survivalTime = U.before.survivalTime
           /\ U.after.timeToAIDS = U.before.timeToAIDS
           /\ U.after.costUtilityMonitor = U.before.costUtilityMonitor

---------------------------------------------------------------------------
(* C2 *)

\* C2: over a patient's simulation timeToAIDS is assigned at most once, and
\* only in an update where currentState is not AIDS and new_state is AIDS: an
\* update changes timeToAIDS only if it was not set before and the update
\* enters AIDS from another state.
C2_TimeToAIDSAssignedOnce ==
    (IsSet(lastUpdate) /\ U.after.timeToAIDS # U.before.timeToAIDS)
        => /\ ~IsSet(U.before.timeToAIDS)
           /\ U.before.currentState # AIDS
           /\ U.new_state = AIDS

---------------------------------------------------------------------------
(* C3 *)

\* C3: when Patient.simulate has returned, either the patient is in the death
\* state, or it is alive and the step counter equals n_time_steps; exactly
\* one of the two.
C3_ReturnsDeadXorCapReached ==
    \A i \in 1..Len(patients) :
        Returned(i) =>
            LET m == patients[i].stateMonitor
                dead == m.currentState = HIV_DEATH
                capped == m.currentState # HIV_DEATH /\ patients[i].k = nSteps
            IN  (dead \/ capped) /\ ~(dead /\ capped)

\* a patient has returned from simulate alive, after at least two steps
C3_Witness ==
    \E i \in 1..Len(patients) :
        /\ Returned(i)
        /\ patients[i].stateMonitor.currentState # HIV_DEATH
        /\ patients[i].k = nSteps
        /\ nSteps >= 2

---------------------------------------------------------------------------
(* C4 *)

\* C4: an update of a living patient with new_state = death sets survivalTime
\* to time_step + 0.5; so after Patient.simulate the survival time of a
\* patient that died in it is (the index of the last step) + 0.5.
C4_SurvivalTimeIsStepPlusHalf ==
    /\ (IsSet(lastUpdate) /\ U.before.currentState # HIV_DEATH
                          /\ U.new_state = HIV_DEATH)
           => U.after.survivalTime = Some(AtHalf(U.time_step))
    /\ \A i \in 1..Len(patients) :
           (Returned(i) /\ patients[i].stateMonitor.currentState = HIV_DEATH
                        /\ patients[i].k > 0)
               => patients[i].stateMonitor.survivalTime
                      = Some(AtHalf(patients[i].k - 1))

\* a patient has died on its second or a later step, and simulate has returned
C4_Witness ==
    \E i \in 1..Len(patients) :
        /\ Returned(i)
        /\ patients[i].stateMonitor.currentState = HIV_DEATH
        /\ patients[i].k >= 2
        /\ IsSet(lastUpdate) /\ U.new_state = HIV_DEATH

---------------------------------------------------------------------------
(* C5 *)

\* the payments of a step as the specification states them, before discounting
PaymentCost(current_state, next_state) ==
    Rat(params.annualStateCosts[current_state + 1]
        + params.annualStateCosts[next_state + 1]
        + (IF next_state = HIV_DEATH
           THEN params.annualTreatmentCost
           ELSE 2 * params.annualTreatmentCost),
        2)

PaymentUtility(current_state, next_state) ==
    Rat(params.annualStateUtilities[current_state + 1]
        + params.annualStateUtilities[next_state + 1],
        2)

\* payment / (1 + discountRate / 2)^(2k + 1)
Discounted(payment, k) ==
    RatDiv(payment, RatPow(<<2 * Den(params.discountRate) + Num(params.discountRate),
                             2 * Den(params.discountRate)>>,
                           2 * k + 1))

\* C5: on every update the cost payment is half the sum of the two states'
\* annual costs plus the whole treatment cost (half of it when next_state is
\* death), the utility payment is half the sum of the two states' annual
\* utilities, and the totals grow by the present value of these payments.
C5_TotalsGrowByStepPayments ==
    IsSet(lastUpdate) =>
        /\ U.after.costUtilityMonitor.totalDiscountedCost
               = RatAdd(U.before.costUtilityMonitor.totalDiscountedCost,
                        Discounted(PaymentCost(U.before.currentState, U.new_state),
                                   U.time_step))
        /\ U.after.costUtilityMonitor.totalDiscountedUtility
               = RatAdd(U.before.costUtilityMonitor.totalDiscountedUtility,
                        Discounted(PaymentUtility(U.before.currentState, U.new_state),
                                   U.time_step))

\* the same, of the classes of EconEvalMarkovModelClasses.py alone
C5_HoldsOfEconEval == (variant = "EE") => C5_TotalsGrowByStepPayments

---------------------------------------------------------------------------
(* C6 *)

\* C6: in EconEvalMarkovModelClasses.py an update at time step k adds
\* payment / (1 + discountRate / 2)^(2k + 1) to each total, and the steps of a
\* patient's simulation use k = 0, 1, 2, ... (the periods 1, 3, 5, ...) in
\* order: while the loop runs, the last update was the one of step k - 1.
C6_DiscountedOverOddPeriods ==
    (variant = "EE") =>
        /\ IsSet(lastUpdate) =>
               /\ U.after.costUtilityMonitor.totalDiscountedCost
                      = RatAdd(U.before.costUtilityMonitor.totalDiscountedCost,
                               Discounted(StepCost(params, U.before.currentState,
                                                   U.new_state),
                                          U.time_step))
               /\ U.after.costUtilityMonitor.totalDiscountedUtility
                      = RatAdd(U.before.costUtilityMonitor.totalDiscountedUtility,
                               Discounted(StepUtility(params, U.before.currentState,
                                                      U.new_state),
                                          U.time_step))
        /\ (pc = "run" /\ cur <= Len(patients) /\ patients[cur].inLoop
                       /\ patients[cur].k > 0)
               => /\ IsSet(lastUpdate)
                  /\ U.patient = cur
                  /\ 2 * U.time_step + 1 = 2 * patients[cur].k - 1

\* a third step of a patient, at a positive discount rate, has added a
\* positive cost
C6_Witness ==
    /\ variant = "EE"
    /\ IsSet(lastUpdate)
    /\ U.time_step = 2
    /\ RatLT(Zero, params.discountRate)
    /\ RatLT(U.before.costUtilityMonitor.totalDiscountedCost,
             U.after.costUtilityMonitor.totalDiscountedCost)

---------------------------------------------------------------------------
(* C7 *)

NonNegativeInputs ==
    /\ \A j \in 1..3 : params.annualStateCosts[j] >= 0
    /\ \A j \in 1..3 : params.annualStateUtilities[j] >= 0
    /\ params.annualTreatmentCost >= 0
    /\ RatLE(Zero, params.discountRate)

\* C7: with non-negative costs, utilities, treatment cost and discount rate,
\* both totals are 0 before a patient's first update and no update decreases
\* either of them.
C7_TotalsStartAtZeroAndNeverDecrease ==
    NonNegativeInputs =>
        /\ ~IsSet(lastUpdate) =>
               \A i \in 1..Len(patients) :
                   patients[i].stateMonitor.costUtilityMonitor
                       = [totalDiscountedCost |-> Zero,
                          totalDiscountedUtility |-> Zero]
        /\ IsSet(lastUpdate) =>
               /\ RatLE(U.before.costUtilityMonitor.totalDiscountedCost,
                        U.after.costUtilityMonitor.totalDiscountedCost)
               /\ RatLE(U.before.costUtilityMonitor.totalDiscountedUtility,
                        U.after.costUtilityMonitor.totalDiscountedUtility)

\* with non-negative inputs a second step has made both totals larger
C7_Witness ==
    /\ NonNegativeInputs
    /\ IsSet(lastUpdate)
    /\ U.time_step >= 1
    /\ RatLT(U.before.costUtilityMonitor.totalDiscountedCost,
             U.after.costUtilityMonitor.totalDiscountedCost)
    /\ RatLT(U.before.costUtilityMonitor.totalDiscountedUtility,
             U.after.costUtilityMonitor.totalDiscountedUtility)

---------------------------------------------------------------------------
(* C8 *)

\* every cohort's patient ids are cohortId * popSize + i, i = 0 .. popSize - 1
IdsFollowFormula ==
    \A c \in 1..Len(registry) :
        /\ Len(registry[c].patientIds) = registry[c].popSize
        /\ \A j \in 1..registry[c].popSize :
               registry[c].patientIds[j]
                   = registry[c].id * registry[c].popSize + (j - 1)

\* no two patients, of one cohort or of two, have the same id
NoSharedPatientId ==
    \A c1, c2 \in 1..Len(registry) :
        \A j1 \in 1..Len(registry[c1].patientIds),
           j2 \in 1..Len(registry[c2].patientIds) :
            (c1 # c2 \/ j1 # j2)
                => registry[c1].patientIds[j1] # registry[c2].patientIds[j2]

\* C8 as stated: ids are cohortId * popSize + i, and cohorts with distinct
\* ids, whatever their population sizes, share no patient id.
C8_IdsUniqueForAnyPopSizes == IdsFollowFormula /\ NoSharedPatientId

\* C8 as amended: ids are cohortId * popSize + i, and cohorts with distinct
\* ids and one common population size share no patient id.
C8_IdsUniqueForEqualPopSizes ==
    /\ IdsFollowFormula
    /\ (\A c1, c2 \in 1..Len(registry) :
            registry[c1].popSize = registry[c2].popSize)
           => NoSharedPatientId

\* two cohorts of the same size, two patients or more each
C8_Witness ==
    /\ Len(registry) = 2
    /\ registry[1].popSize = registry[2].popSize
    /\ registry[1].popSize >= 2
    /\ Len(registry[2].patientIds) >= 2

---------------------------------------------------------------------------
(* C9 *)

\* the first Cohort.simulate on a freshly built cohort has completed
FirstSimulateDone == pc = "idle" /\ calls = 1

OptSeq(s) == [j \in 1..Len(s) |-> Some(s[j])]

\* the survivalTime fields of the patients whose final state is death
RECURSIVE SurvivalTimesOfDead(_)
SurvivalTimesOfDead(ps) ==
    IF ps = <<>> THEN <<>>
    ELSE (IF Head(ps).stateMonitor.currentState = HIV_DEATH
          THEN <<Head(ps).stateMonitor.survivalTime>> ELSE <<>>)
         \o SurvivalTimesOfDead(Tail(ps))

\* the survivalTime fields of the patients that died during the simulation
RECURSIVE SurvivalTimesOfDied(_)
SurvivalTimesOfDied(ps) ==
    IF ps = <<>> THEN <<>>
    ELSE (IF /\ Head(ps).stateMonitor.currentState = HIV_DEATH
             /\ params.initialHealthState # HIV_DEATH
          THEN <<Head(ps).stateMonitor.survivalTime>> ELSE <<>>)
         \o SurvivalTimesOfDied(Tail(ps))

\* the timeToAIDS fields of the patients that made a transition into AIDS
RECURSIVE TimesToAIDSOfDeveloped(_)
TimesToAIDSOfDeveloped(ps) ==
    IF ps = <<>> THEN <<>>
    ELSE (IF IsSet(Head(ps).stateMonitor.timeToAIDS)
          THEN <<Head(ps).stateMonitor.timeToAIDS>> ELSE <<>>)
         \o TimesToAIDSOfDeveloped(Tail(ps))

\* costs and utilities hold one entry per patient, in the patients' order
CostsAndUtilitiesPerPatient ==
    /\ Len(cohortOutcomes.costs) = cohort.popSize
    /\ Len(cohortOutcomes.utilities) = cohort.popSize
    /\ Len(patients) = cohort.popSize
    /\ \A j \in 1..cohort.popSize :
           /\ cohortOutcomes.costs[j]
                  = patients[j].stateMonitor.costUtilityMonitor.totalDiscountedCost
           /\ cohortOutcomes.utilities[j]
                  = patients[j].stateMonitor.costUtilityMonitor.totalDiscountedUtility

\* C9 as stated: after Cohort.simulate on a fresh cohort, costs and utilities
\* hold one entry per patient, survivalTimes one entry for each patient whose
\* final state is death, timesToAIDS one entry for each patient that entered
\* AIDS, all in the patients' order.
C9_VectorsByFinalState ==
    FirstSimulateDone =>
        /\ CostsAndUtilitiesPerPatient
        /\ OptSeq(cohortOutcomes.survivalTimes) = SurvivalTimesOfDead(patients)
        /\ OptSeq(cohortOutcomes.timesToAIDS) = TimesToAIDSOfDeveloped(patients)

\* C9 as amended: the same, with survivalTimes holding one entry for each
\* patient that died during the simulation (a patient whose initial state is
\* death already has no survival time and contributes none).
C9_VectorsByDeathInSimulation ==
    FirstSimulateDone =>
        /\ CostsAndUtilitiesPerPatient
        /\ OptSeq(cohortOutcomes.survivalTimes) = SurvivalTimesOfDied(patients)
        /\ OptSeq(cohortOutcomes.timesToAIDS) = TimesToAIDSOfDeveloped(patients)

\* two patients simulated: the first alive at the end, the second dead, one
\* of them having entered AIDS
C9_Witness ==
    /\ FirstSimulateDone
    /\ cohort.popSize = 2
    /\ patients[1].stateMonitor.currentState # HIV_DEATH
    /\ patients[2].stateMonitor.currentState = HIV_DEATH
    /\ Len(cohortOutcomes.survivalTimes) = 1
    /\ Len(cohortOutcomes.timesToAIDS) = 1

---------------------------------------------------------------------------
(* C10 *)

\* the survival curve of the outcomes, once built
Curve == Val(cohortOutcomes.nLivingPatients)

\* the number of survival times recorded at time t
DeathsAt(t) ==
    Cardinality({j \in 1..Len(cohortOutcomes.survivalTimes) :
                    cohortOutcomes.survivalTimes[j] = t})

\* the fall of the curve at time t: from the value before its first change at
\* t to the value after its last
DropAt(t) ==
    LET at == {j \in 2..Len(Curve.times) : Curve.times[j] = t}
        first == CHOOSE j \in at : \A i \in at : j <= i
        last == CHOOSE j \in at : \A i \in at : i <= j
    IN  Curve.values[first - 1] - Curve.values[last]

DeadPatients ==
    {i \in 1..Len(patients) : patients[i].stateMonitor.currentState = HIV_DEATH}

\* the curve starts at popSize at time 0, never rises, stays within
\* 0..popSize, changes in ascending order of time, falls at each survival
\* time by the number of deaths recorded at it, and ends at popSize minus the
\* number of dead patients
SurvivalCurveIsSound ==
    /\ Len(Curve.times) = Len(Curve.values)
    /\ Curve.times[1] = Zero
    /\ Curve.values[1] = cohort.popSize
    /\ \A j \in 1..(Len(Curve.values) - 1) : Curve.values[j + 1] <= Curve.values[j]
    /\ \A j \in 1..Len(Curve.values) :
           Curve.values[j] >= 0 /\ Curve.values[j] <= cohort.popSize
    /\ \A j \in 1..(Len(Curve.times) - 1) : RatLE(Curve.times[j], Curve.times[j + 1])
    /\ \A j \in 1..Len(cohortOutcomes.survivalTimes) :
           /\ \E i \in 2..Len(Curve.times) :
                  Curve.times[i] = cohortOutcomes.survivalTimes[j]
           /\ DropAt(cohortOutcomes.survivalTimes[j])
                  = DeathsAt(cohortOutcomes.survivalTimes[j])
    /\ Curve.values[Len(Curve.values)] = cohort.popSize - Cardinality(DeadPatients)

\* C10, for cohorts whose patients start alive: every survival curve that
\* extract_outcomes has built starts at popSize at time 0, is non-increasing,
\* falls at each survival time by the deaths recorded at it (in ascending
\* order of time), stays within 0..popSize and ends at popSize minus the
\* number of dead patients.
C10_SurvivalCurveSound ==
    (IsSet(cohortOutcomes.nLivingPatients) /\ pc = "idle"
        /\ params.initialHealthState # HIV_DEATH)
        => SurvivalCurveIsSound

\* the same of the curve built by the first Cohort.simulate on a cohort
C10_HoldsOfFirstSimulate ==
    (FirstSimulateDone /\ params.initialHealthState # HIV_DEATH)
        => SurvivalCurveIsSound

---------------------------------------------------------------------------
(* C11 *)

\* the four raw outcome vectors of the cohort
RawVectors ==
    <<cohortOutcomes.survivalTimes, cohortOutcomes.timesToAIDS,
      cohortOutcomes.costs, cohortOutcomes.utilities>>

\* C11: the outcomes of a cohort are built once: after the first
\* Cohort.simulate on a Cohort has completed, no step of a further
\* Cohort.simulate on the same Cohort changes survivalTimes, timesToAIDS,
\* costs or utilities, and costs and utilities keep exactly popSize entries.
C11_OutcomesBuiltOnce ==
    [][calls >= 1 => /\ RawVectors' = RawVectors
                     /\ Len(cohortOutcomes.costs') = cohort.popSize
                     /\ Len(cohortOutcomes.utilities') = cohort.popSize]_vars

---------------------------------------------------------------------------
(* C12 *)

\* C12: two Patient objects built with the same id and the same Parameters
\* and simulated with the same n_time_steps go through the same sequence of
\* states: whenever they have done the same number of steps their monitors
\* are equal (currentState, survivalTime, timeToAIDS and the totals), and
\* when both have returned they have done the same number of steps and ended
\* with equal monitors.
C12_SameIdSameRun ==
    \A i, j \in 1..Len(patients) :
        patients[i].id = patients[j].id
            => /\ patients[i].k = patients[j].k
                   => patients[i].stateMonitor = patients[j].stateMonitor
               /\ (i \in joined /\ j \in joined)
                   => /\ patients[i].k = patients[j].k
                      /\ patients[i].stateMonitor = patients[j].stateMonitor

\* both twins have returned after developing AIDS and dying at the third
\* step, the second replaying the three draws the first revealed
C12_Witness ==
    /\ Len(patients) = 2
    /\ patients[1].id = patients[2].id
    /\ joined = {1, 2}
    /\ patients[1].k = 3
    /\ patients[2].k = 3
    /\ Len(streams[patients[1].id]) = 3
    /\ IsSet(patients[2].stateMonitor.timeToAIDS)
    /\ IsSet(patients[2].stateMonitor.survivalTime)

---------------------------------------------------------------------------
(* C13 *)

\* the i-th patient, whose Patient.simulate has returned, ended with the
\* monitor it ends with when it is simulated alone with the same generator
EndsAsAlone(i) ==
    patients[i].stateMonitor
        = RunAlone(variant, params, Patient_init(patients[i].id, params),
                   nSteps, streams[patients[i].id])

\* a step changes at most one patient, and no random stream but that patient's
OnlyOwnStateTouched ==
    /\ \A i, j \in 1..Len(patients) :
           (patients'[i] # patients[i] /\ patients'[j] # patients[j]) => i = j
    /\ \A s \in Seeds :
           streams'[s] # streams[s]
               => \E i \in 1..Len(patients) :
                      /\ patients[i].id = s
                      /\ patients'[i] # patients[i]
                      /\ \A j \in 1..Len(patients) :
                             j # i => patients'[j] = patients[j]

\* C13: the patients of a cohort are independent: in every order and every
\* interleaving of their steps, a step of one patient changes no other
\* patient's monitor, counter or random stream, the shared Parameters are
\* never modified, and every patient that has returned ended with the values
\* it ends with when it is run alone.
C13_PatientsIndependent ==
    /\ [][OnlyOwnStateTouched /\ params' = params]_vars
    /\ [](\A i \in joined : EndsAsAlone(i))

\* the second patient has returned, dead after two steps, while the first
\* is in the middle of its loop: their steps were interleaved
C13_Witness ==
    /\ pc = "par"
    /\ Len(patients) = 2
    /\ patients[1].id # patients[2].id
    /\ joined = {2}
    /\ patients[2].k = 2
    /\ patients[2].stateMonitor.currentState = HIV_DEATH
    /\ patients[1].inLoop
    /\ patients[1].k = 1
    /\ patients[1].stateMonitor.currentState = AIDS
    /\ IsSet(lastUpdate) /\ U.patient = 2

---------------------------------------------------------------------------
(* C14 *)

\* a configuration is valid when every row of the matrix has one
\* non-negative weight per state, the weights of a row sum to one, the death
\* row is absorbing and the initial state is a state of the model
ValidConfiguration(p) ==
    /\ p.initialHealthState \in HealthStates
    /\ Len(p.probMatrix) = Cardinality(HealthStates)
    /\ \A s \in HealthStates :
           LET row == p.probMatrix[s + 1]
           IN  /\ Len(row) = Cardinality(HealthStates)
               /\ \A j \in 1..Len(row) : row[j] >= 0
               /\ CumWeight(row, Len(row)) = ProbDen
    /\ p.probMatrix[HIV_DEATH + 1] = AbsorbingRow

\* C14: an invalid configuration is detected when the Cohort and Patient
\* objects are constructed, before any patient performs a simulation step: no
\* monitor update happens, and no patient ever leaves its initial monitor
\* state, under an invalid configuration.
C14_InvalidConfigurationNeverSimulated ==
    ~ValidConfiguration(params)
        => /\ lastUpdate = None
           /\ \A i \in 1..Len(patients) :
                  patients[i].stateMonitor = PatientStateMonitor_init(params)

---------------------------------------------------------------------------
(* C15 *)

\* the updates of a Patient.simulate call are numbered 0, 1, 2, ... without
\* gaps, there are at most n_time_steps of them, none is made on a dead
\* patient, and the call returns only after the update that entered the
\* death state or with the counter at n_time_steps
SimulateStepsInOrder ==
    \A i \in 1..Len(patients) :
        LET pt == patients[i]
            m == pt.stateMonitor
        IN  /\ pt.k >= 0 /\ pt.k <= nSteps
            /\ (IsSet(lastUpdate) /\ U.patient = i)
                   => /\ U.time_step = pt.k - 1
                      /\ U.before.currentState # HIV_DEATH
                      /\ U.after = m
            /\ (pt.inLoop /\ pt.k > 0) => (IsSet(lastUpdate) /\ U.patient = i)
            /\ Returned(i)
                   => \/ m.currentState # HIV_DEATH /\ pt.k = nSteps
                      \/ m.currentState = HIV_DEATH /\ pt.k = 0
                      \/ /\ m.currentState = HIV_DEATH
                         /\ IsSet(lastUpdate)
                         /\ U.new_state = HIV_DEATH

\* C15: Patient.simulate(n) always terminates, whatever the matrix (also when
\* death is never reached): once entered it eventually returns, after at
\* most n updates whose time_step values are 0, 1, 2, ... in order without
\* gaps, stopping at the first step that enters the death state or when the
\* counter reaches n.
C15_SimulateTerminates ==
    /\ []SimulateStepsInOrder
    /\ \A i \in 1..MaxPopSize :
           (i <= Len(patients) /\ patients[i].inLoop) ~> Returned(i)

\* a patient under a matrix that never leaves the first state has returned
\* alive with the counter at the cap, after the updates 0, 1 and 2
C15_Witness ==
    /\ Returned(1)
    /\ params.probMatrix[WELL + 1][WELL + 1] = ProbDen
    /\ patients[1].stateMonitor.currentState = WELL
    /\ nSteps = 3
    /\ patients[1].k = 3
    /\ IsSet(lastUpdate) /\ U.time_step = 2

---------------------------------------------------------------------------
(* C16 *)

\* C16: a cohort with popSize 0 simulates without raising: no patient is
\* created and no monitor updated, Cohort.simulate goes straight to
\* extract_outcomes and returns, and after it the four raw vectors are empty
\* and the survival curve is the constant zero (initial size 0, no change).
C16_EmptyCohortSimulates ==
    cohort.popSize = 0
        => /\ patients = <<>>
           /\ lastUpdate = None
           /\ pc = "run" => ENABLED Cohort_simulate_return
           /\ FirstSimulateDone
                  => /\ RawVectors = <<<<>>, <<>>, <<>>, <<>>>>
                     /\ IsSet(cohortOutcomes.nLivingPatients)
                     /\ Curve = [times |-> <<Zero>>, values |-> <<0>>]

\* Cohort.simulate has returned for a cohort of no patients
C16_Witness ==
    /\ cohort.popSize = 0
    /\ FirstSimulateDone
    /\ nSteps = 2
    /\ IsSet(cohortOutcomes.nLivingPatients)
    /\ Curve.values = <<0>>

---------------------------------------------------------------------------
(* C17 *)

\* the survival time of every patient that is in Patient.simulate, or has
\* returned from it, is set exactly when the patient is in the death state
SurvivalTimeIffDead ==
    \A i \in 1..Len(patients) :
        LET m == patients[i].stateMonitor
        IN  (patients[i].inLoop \/ Returned(i))
                => (IsSet(m.survivalTime) <=> m.currentState = HIV_DEATH)

\* C17 as stated: for every initial health state and matrix, in every state
\* reachable during Patient.simulate, survivalTime is set if and only if
\* currentState is the death state.
C17_SurvivalTimeIffDead == SurvivalTimeIffDead

\* C17, amended: the same for every initial health state other than the
\* death state: a patient that exhausts the cap alive has no survival time,
\* and every patient that died has one.
C17_SurvivalTimeIffDiedInSimulation ==
    params.initialHealthState # HIV_DEATH => SurvivalTimeIffDead

\* one patient has returned dead with a survival time after two steps
C17_Witness ==
    /\ params.initialHealthState = WELL
    /\ Returned(1)
    /\ patients[1].k = 2
    /\ patients[1].stateMonitor.currentState = HIV_DEATH
    /\ patients[1].stateMonitor.survivalTime = Some(AtHalf(1))

---------------------------------------------------------------------------
(* C18 *)

\* the fields the two PatientStateMonitor classes have in common
CommonFields(m) == <<m.currentState, m.survivalTime, m.timeToAIDS>>

\* the monitor of variant v after the first j steps of the i-th patient's
\* run, replayed on the draws of the patient's seed
MonitorAfter(v, i, j) ==
    RunAlone(v, params, Patient_init(patients[i].id, params), j,
             streams[patients[i].id])

\* C18: within Patient.simulate, update is never invoked while currentState
\* is the death state, so for every seed, matrix and step cap the unguarded
\* monitor (EconEvalMarkovModelClasses) and the guarded monitor
\* (MarkovModelClasses) pass through the same sequence of currentState,
\* survivalTime and timeToAIDS values: at every point of the run the two,
\* replayed on the draws made so far, agree, and the running monitor is the
\* one of its variant; and
\* the guarded monitor's ifDevelopedAIDS is true exactly when timeToAIDS is
\* set.
C18_GuardedAndUnguardedAgree ==
    /\ IsSet(lastUpdate) => U.before.currentState # HIV_DEATH
    /\ \A i \in 1..Len(patients) :
           (patients[i].inLoop \/ Returned(i))
               => /\ CommonFields(MonitorAfter("EE", i, patients[i].k))
                         = CommonFields(MonitorAfter("MM", i, patients[i].k))
                  /\ patients[i].stateMonitor
                         = MonitorAfter(variant, i, patients[i].k)
                  /\ MonitorAfter("MM", i, patients[i].k).ifDevelopedAIDS
                         <=> IsSet(MonitorAfter("MM", i, patients[i].k).timeToAIDS)

\* a patient with the guarded monitor has returned dead after three steps,
\* having developed AIDS on the way
C18_Witness ==
    /\ variant = "MM"
    /\ Returned(1)
    /\ patients[1].k = 3
    /\ patients[1].stateMonitor.currentState = HIV_DEATH
    /\ patients[1].stateMonitor.ifDevelopedAIDS
    /\ IsSet(patients[1].stateMonitor.timeToAIDS)
    /\ IsSet(lastUpdate) /\ U.before.currentState = AIDS

---------------------------------------------------------------------------
(* C19 *)

\* t is k + 0.5 for a step k of a run of n_time_steps steps
IsStepTime(t, n_time_steps) == \E k \in 0..(n_time_steps - 1) : t = AtHalf(k)

\* C19: for every patient run by a single Patient.simulate(n_time_steps),
\* every recorded event time has the form k + 0.5 with 0 <= k < n_time_steps,
\* and when both timeToAIDS and survivalTime are set, timeToAIDS is strictly
\* less than survivalTime.
C19_EventTimesWithinRunAndOrdered ==
    \A i \in 1..Len(patients) :
        LET m == patients[i].stateMonitor
        IN  /\ IsSet(m.survivalTime) => IsStepTime(Val(m.survivalTime), nSteps)
            /\ IsSet(m.timeToAIDS) => IsStepTime(Val(m.timeToAIDS), nSteps)
            /\ (IsSet(m.timeToAIDS) /\ IsSet(m.survivalTime))
                   => RatLT(Val(m.timeToAIDS), Val(m.survivalTime))

\* a patient developed AIDS at its second step and died at its third and last
C19_Witness ==
    /\ Returned(1)
    /\ nSteps = 3
    /\ patients[1].stateMonitor.timeToAIDS = Some(AtHalf(1))
    /\ patients[1].stateMonitor.survivalTime = Some(AtHalf(2))

====
